---- MODULE Spec2Model ----
(***************************************************************************)
(* Model of docs/components/ValidatorEconomics.tsx: the React component    *)
(* ValidatorEconomicsChart, its four input controls, its theme listener    *)
(* and the memoised 12-week simulation it charts.                          *)
(*                                                                         *)
(* JavaScript numbers are modelled as rounded decimal floating point: a    *)
(* number is NaN or m * 10^e with a mantissa m of Digits significant       *)
(* decimal digits, and every arithmetic operation rounds its result to     *)
(* that precision (to within one unit in the last place), as IEEE-754 does *)
(* in binary with 53 bits.  NaN propagates through every operation.  The   *)
(* sign of zero is not kept (0 and -0 are one value) and there are no      *)
(* infinities: no input the controls can produce overflows.                *)
(***************************************************************************)
EXTENDS Integers, Sequences

\* Call by value, as JavaScript calls: F applied to the values of its
\* operands, each operand evaluated once, before the call.
Apply1(F(_), v) == CHOOSE r \in { F(x) : x \in {v} } : TRUE
Apply2(F(_, _), v, w) == CHOOSE r \in { F(x, y) : x \in {v}, y \in {w} } : TRUE

\* ------------------------------------------------------------------------
\* Numbers
\* ------------------------------------------------------------------------

\* Significant decimal digits of a number's mantissa.
Digits == 8
\* A mantissa is two limbs of Digits / 2 decimal digits each.
Limb == 10000
\* 10^Digits: mantissas are below it.
MantMax == Limb * Limb

NaN == [k |-> "nan", m |-> 0, e |-> 0]
Zero == [k |-> "num", m |-> 0, e |-> 0]

IsNaN(x) == x.k = "nan"
IsNumber(x) == x.k = "num"

Abs(n) == IF n < 0 THEN -n ELSE n
Sgn(n) == IF n < 0 THEN -1 ELSE 1

RECURSIVE Pow10(_)
Pow10(n) == IF n <= 0 THEN 1 ELSE 10 * Pow10(n - 1)

\* n / 10^d for n >= 0, rounded to the nearest integer, ties to even.
RoundShift(n, d) ==
    IF d <= 0 THEN n
    ELSE IF d > 9 THEN 0
    ELSE LET p == Pow10(d)
             q == n \div p
             r == n % p
         IN  IF 2 * r > p \/ (2 * r = p /\ q % 2 = 1) THEN q + 1 ELSE q

\* The number of decimal digits of n > 0.
RECURSIVE NumDigits(_)
NumDigits(n) == IF n < 10 THEN 1 ELSE 1 + NumDigits(n \div 10)

\* The number s * a * 10^e, for a > 0 of n digits and a sign s, rounded to
\* Digits significant digits.
Rounded(a, n, s, e) ==
             IF a >= MantMax
             THEN LET r == RoundShift(a, n - Digits)
                  IN  IF r >= MantMax
                      THEN [k |-> "num", m |-> s * (r \div 10), e |-> e + (n - Digits) + 1]
                      ELSE [k |-> "num", m |-> s * r, e |-> e + (n - Digits)]
             ELSE [k |-> "num", m |-> s * a * Pow10(Digits - n), e |-> e - (Digits - n)]

\* The number m * 10^e rounded to Digits significant digits.
NormalizeValue(m, e) ==
    IF m = 0 THEN Zero
    ELSE LET RoundedTo(n) == Rounded(Abs(m), n, Sgn(m), e)
         IN  Apply1(RoundedTo, NumDigits(Abs(m)))
Normalize(m, e) == Apply2(NormalizeValue, m, e)

\* A numeric literal of the source: Lit(4345, -3) is 4.345.
Lit(m, e) == Normalize(m, e)

\* a + b
AddValues(a, b) ==
    IF IsNaN(a) \/ IsNaN(b) THEN NaN
    ELSE IF a.m = 0 THEN b
    ELSE IF b.m = 0 THEN a
    ELSE LET hi == IF a.e >= b.e THEN a ELSE b
             lo == IF a.e >= b.e THEN b ELSE a
             d == hi.e - lo.e
         IN  IF d = 0 THEN Normalize(hi.m + lo.m, hi.e)
             ELSE IF d > Digits + 1 THEN hi
             ELSE Normalize(hi.m * 10 + Sgn(lo.m) * RoundShift(Abs(lo.m), d - 1),
                            hi.e - 1)
FAdd(a, b) == Apply2(AddValues, a, b)

NegValue(a) == IF IsNaN(a) THEN NaN ELSE [k |-> "num", m |-> -a.m, e |-> a.e]
FNeg(a) == Apply1(NegValue, a)

\* a - b
FSub(a, b) == FAdd(a, FNeg(b))

\* a * b: the 16-digit product of the mantissas, cut to 9 digits and rounded.
MulValues(a, b) ==
    IF IsNaN(a) \/ IsNaN(b) THEN NaN
    ELSE IF a.m = 0 \/ b.m = 0 THEN Zero
    ELSE LET a1 == Abs(a.m) \div Limb
             a0 == Abs(a.m) % Limb
             b1 == Abs(b.m) \div Limb
             b0 == Abs(b.m) % Limb
             mid == a1 * b0 + a0 * b1
             low == a0 * b0
             top == a1 * b1 * 10 + ((mid + (low \div Limb)) \div 1000)
         IN  Normalize(Sgn(a.m) * Sgn(b.m) * top, a.e + b.e + (Digits - 1))
FMul(a, b) == Apply2(MulValues, a, b)

\* Long division: n more digits of the quotient q with remainder r.
RECURSIVE DivDigits(_, _, _, _)
DivDigits(q, r, d, n) ==
    IF n = 0 THEN q
    ELSE DivDigits(q * 10 + ((r * 10) \div d), (r * 10) % d, d, n - 1)

\* a / b.  Every divisor of the source is a non-zero literal; x / 0 (an
\* infinity or NaN in JavaScript) is outside the numbers kept here.
DivValues(a, b) ==
    IF IsNaN(a) \/ IsNaN(b) \/ b.m = 0 THEN NaN
    ELSE IF a.m = 0 THEN Zero
    ELSE LET n == IF Abs(a.m) < Abs(b.m) THEN Digits + 1 ELSE Digits
             q == DivDigits(Abs(a.m) \div Abs(b.m), Abs(a.m) % Abs(b.m), Abs(b.m), n)
         IN  Normalize(Sgn(a.m) * Sgn(b.m) * q, a.e - b.e - n)
FDiv(a, b) == Apply2(DivValues, a, b)

\* a < b (false when either is NaN).
LessValues(a, b) == IsNumber(a) /\ IsNumber(b) /\ FSub(a, b).m < 0
FLess(a, b) == Apply2(LessValues, a, b)

One == Lit(1, 0)

\* ------------------------------------------------------------------------
\* Text of an input control, as a sequence of characters
\* ------------------------------------------------------------------------

DigitChars == <<"0", "1", "2", "3", "4", "5", "6", "7", "8", "9">>
IsDigit(c) == \E d \in 1..10 : DigitChars[d] = c
DigitValue(c) == (CHOOSE d \in 1..10 : DigitChars[d] = c) - 1

\* The longest prefix of s from position i on that reads as digits with at
\* most one decimal point: its digits as an integer m, the count of digits
\* after the point, and whether any digit was read.
RECURSIVE ScanDecimal(_, _, _, _, _, _)
ScanDecimal(s, i, m, frac, dot, any) ==
    IF i > Len(s) THEN [m |-> m, frac |-> frac, any |-> any]
    ELSE IF IsDigit(s[i])
         THEN ScanDecimal(s, i + 1, m * 10 + DigitValue(s[i]),
                          IF dot THEN frac + 1 ELSE frac, dot, TRUE)
    ELSE IF s[i] = "." /\ ~dot THEN ScanDecimal(s, i + 1, m, frac, TRUE, any)
    ELSE [m |-> m, frac |-> frac, any |-> any]

\* parseFloat: the number the longest decimal prefix of the text denotes,
\* NaN when the text has no such prefix (the empty text among them).
ParseFloat(s) ==
    LET neg == Len(s) > 0 /\ s[1] = "-"
        r == ScanDecimal(s, IF neg THEN 2 ELSE 1, 0, 0, FALSE, FALSE)
    IN  IF ~r.any THEN NaN
        ELSE Lit(IF neg THEN -r.m ELSE r.m, -r.frac)

RECURSIVE NatToChars(_)
NatToChars(n) ==
    IF n < 10 THEN <<DigitChars[n + 1]>>
    ELSE Append(NatToChars(n \div 10), DigitChars[(n % 10) + 1])

\* Number.prototype.toFixed(2) of the tooltip formatter: the number rounded
\* to hundredths (a tie goes to the larger magnitude), as text.
ToFixed2(v) ==
    IF IsNaN(v) THEN <<"N", "a", "N">>
    ELSE LET p == Pow10(-(v.e + 2))
             cents == IF v.e + 2 >= 0 THEN Abs(v.m) * Pow10(v.e + 2)
                      ELSE IF -(v.e + 2) > Digits THEN 0
                      ELSE (Abs(v.m) + (p \div 2)) \div p
             body == NatToChars(cents \div 100)
                     \o <<".", DigitChars[((cents \div 10) % 10) + 1],
                          DigitChars[(cents % 10) + 1]>>
         IN  IF v.m < 0 THEN <<"-">> \o body ELSE body

\* ------------------------------------------------------------------------
\* Lookup tables and fixed assumptions
\* ------------------------------------------------------------------------

Providers == {"aws_ec2", "gcp_compute"}
BlobProviders == {"s3", "gcs"}

COMPUTE_COSTS(p) ==
    CASE p = "aws_ec2" -> [base |-> Lit(80, 0)]
      [] p = "gcp_compute" -> [base |-> Lit(70, 0)]

BLOB_COSTS(b) ==
    CASE b = "s3" -> [storage_per_gb |-> Lit(23, -3), egress_per_gb |-> Lit(9, -2)]
      [] b = "gcs" -> [storage_per_gb |-> Lit(20, -3), egress_per_gb |-> Lit(12, -2)]

storageGB == 200
egressGB == 400
annualRewardRate == Lit(7, -2)
\* (variant: one week short)
Weeks_Mut == 12 - 1
weeks == 12

\* Math.sin(week / 3) and Math.cos(week / 2) for week = 1..weeks, in radians,
\* tabulated to eight decimal places.
SinTable ==
    <<32719470, 61836980, 84147098, 97193790, 99540796, 90929743,
      72308588, 45727263, 14112001, -19056796, -50127705, -75680250>>
CosTable ==
    <<87758256, 54030231, 7073720, -41614684, -80114362, -98999250,
      -93645669, -65364362, -21079580, 28366219, 70866977, 96017029>>
SinWeekOver3(week) == Lit(SinTable[week], -8)
CosWeekOver2(week) == Lit(CosTable[week], -8)

\* ------------------------------------------------------------------------
\* The simulation (the useMemo callback)
\* ------------------------------------------------------------------------

weeklyRewardRate == FDiv(annualRewardRate, Lit(52, 0))

\* (variant: four weeks to the month)
MonthlyToWeekly_Mut == FDiv(One, Lit(4, 0))
monthlyToWeekly == FDiv(One, Lit(4345, -3))

WeekNumber(i) == i + 1

\* AUDIO price drift of +-10 %
PriceDrift(audioPrice, week) ==
    FMul(audioPrice, FAdd(One, FMul(Lit(1, -1), SinWeekOver3(week))))

\* Reward rate variation of +-5 %
RewardVariance(week) ==
    FMul(weeklyRewardRate, FAdd(One, FMul(Lit(5, -2), CosWeekOver2(week))))

WeeklyEarningsUSD(userStake, audioPrice, week) ==
    FMul(FMul(userStake, RewardVariance(week)), PriceDrift(audioPrice, week))

\* (variant: the week is left out of the growth)
CostGrowth_Mut(week) == FAdd(One, Lit(15, -3))
\* +1.5 % per week
CostGrowth(week) == FAdd(One, FMul(Lit(week, 0), Lit(15, -3)))

WeeklyInfraCostUSD(computeCost, blobCost, week) ==
    FMul(FAdd(FAdd(FMul(computeCost.base, monthlyToWeekly),
                   FMul(blobCost.storage_per_gb, Lit(storageGB, 0))),
              FMul(blobCost.egress_per_gb, Lit(egressGB, 0))),
         CostGrowth(week))

\* (variant: = instead of +=)
Accumulate_Mut(total, amount) == amount
\* total += amount
Accumulate(total, amount) == FAdd(total, amount)

\* (variant: operands swapped)
NetUSD_Mut(weeklyEarningsUSD, weeklyInfraCostUSD) ==
    FSub(weeklyInfraCostUSD, weeklyEarningsUSD)
NetUSD(weeklyEarningsUSD, weeklyInfraCostUSD) ==
    FSub(weeklyEarningsUSD, weeklyInfraCostUSD)

\* (variant: the infra cost is scaled by the drifting price)
WeekProjection_Mut(provider, blob, audioPrice, userStake, cum, i) ==
    LET week == WeekNumber(i)
        Rest(weeklyEarningsUSD, weeklyInfraCostUSD) ==
            LET Element(cumulativeEarnings, cumulativeCosts) ==
                    [cumulativeEarnings |-> cumulativeEarnings,
                     cumulativeCosts |-> cumulativeCosts,
                     element |->
                         [week |-> week,
                          weeklyEarningsUSD |-> weeklyEarningsUSD,
                          weeklyInfraCostUSD |-> weeklyInfraCostUSD,
                          netUSD |-> NetUSD(weeklyEarningsUSD, weeklyInfraCostUSD),
                          cumulativeNetUSD |->
                              FSub(cumulativeEarnings, cumulativeCosts)]]
            IN  Apply2(Element,
                       Accumulate(cum.cumulativeEarnings, weeklyEarningsUSD),
                       Accumulate(cum.cumulativeCosts, weeklyInfraCostUSD))
    IN  Apply2(Rest,
               WeeklyEarningsUSD(userStake, audioPrice, week),
               FMul(WeeklyInfraCostUSD(COMPUTE_COSTS(provider), BLOB_COSTS(blob), week),
                    PriceDrift(audioPrice, week)))
\* One call of the Array.from callback for index i.  cum holds the closure's
\* running totals as the call finds them; the result holds them as it leaves
\* them, with the element the call returns.
WeekProjection(provider, blob, audioPrice, userStake, cum, i) ==
    LET week == WeekNumber(i)
        Rest(weeklyEarningsUSD, weeklyInfraCostUSD) ==
            LET Element(cumulativeEarnings, cumulativeCosts) ==
                    [cumulativeEarnings |-> cumulativeEarnings,
                     cumulativeCosts |-> cumulativeCosts,
                     element |->
                         [week |-> week,
                          weeklyEarningsUSD |-> weeklyEarningsUSD,
                          weeklyInfraCostUSD |-> weeklyInfraCostUSD,
                          netUSD |-> NetUSD(weeklyEarningsUSD, weeklyInfraCostUSD),
                          cumulativeNetUSD |->
                              FSub(cumulativeEarnings, cumulativeCosts)]]
            IN  Apply2(Element,
                       Accumulate(cum.cumulativeEarnings, weeklyEarningsUSD),
                       Accumulate(cum.cumulativeCosts, weeklyInfraCostUSD))
    IN  Apply2(Rest,
               WeeklyEarningsUSD(userStake, audioPrice, week),
               WeeklyInfraCostUSD(COMPUTE_COSTS(provider), BLOB_COSTS(blob), week))

\* Array.from({ length: weeks }, callback): the callback is called for
\* i = 0, 1, ..., weeks - 1 in that order and its results are collected.
RECURSIVE ArrayFrom(_, _, _, _, _, _, _)
ArrayFrom(provider, blob, audioPrice, userStake, cum, i, out) ==
    IF i >= weeks THEN out
    ELSE LET Continue(r, collected) ==
                 ArrayFrom(provider, blob, audioPrice, userStake,
                           [cumulativeEarnings |-> r.cumulativeEarnings,
                            cumulativeCosts |-> r.cumulativeCosts],
                           i + 1, Append(collected, r.element))
         IN  Apply2(Continue,
                    WeekProjection(provider, blob, audioPrice, userStake, cum, i),
                    out)

\* The body of the useMemo callback: the running totals start at 0.
Simulate(provider, blob, audioPrice, userStake) ==
    ArrayFrom(provider, blob, audioPrice, userStake,
              [cumulativeEarnings |-> Zero, cumulativeCosts |-> Zero], 0, <<>>)

\* ------------------------------------------------------------------------
\* The component: state, render, event handlers
\* ------------------------------------------------------------------------

VARIABLES
    provider,    \* useState<Provider>
    blob,        \* useState<BlobProvider>
    audioPrice,  \* useState<number>
    totalStake,  \* useState<number>; its setter is never called
    userStake,   \* useState<number>
    darkMode,    \* useState<boolean>
    listening,   \* whether the mount effect has run and registered its listener
    memo         \* the useMemo cell: the cached value and the deps it was made for

vars == <<provider, blob, audioPrice, totalStake, userStake, darkMode, listening, memo>>

\* The sequence handed to <LineChart data={data}>.
data == memo.value

\* The dependency array of the useMemo call.
\* (variant: userStake missing from the array)
Deps_Mut(p, b, ap, ts, us) == <<p, b, ap, ts>>
Deps(p, b, ap, ts, us) == <<p, b, ap, ts, us>>

\* useMemo during a render with state p, b, ap, ts, us: the cached cell when
\* every dependency is the same value as at the cached render, a new cell
\* from a fresh run of the callback otherwise.
UseMemo(prev, p, b, ap, ts, us) ==
    LET deps == Deps(p, b, ap, ts, us)
    IN  IF prev.deps = deps THEN prev
        ELSE [value |-> Simulate(p, b, ap, us), deps |-> deps]

\* A state setter followed by the re-render it schedules.
SetStateAndRender(p, b, ap, us, dm, l) ==
    /\ provider' = p
    /\ blob' = b
    /\ audioPrice' = ap
    /\ userStake' = us
    /\ darkMode' = dm
    /\ listening' = l
    /\ totalStake' = totalStake
    /\ memo' = UseMemo(memo, p, b, ap, totalStake, us)

\* Texts the two number inputs deliver as e.target.value.  A number input
\* delivers the empty text while its content is empty or not a number.
MaxStakeMillions == 2
EmptyText == <<>>
PriceTexts ==
    { EmptyText, <<"0">>, <<"1">>, <<"0", ".", "2", "7">>, <<"0", ".", "5">>,
      <<"-", "0", ".", "1">> }
StakeTexts ==
    { EmptyText, <<"0">>, <<"1", "5", "0", "0", ".", "5">> }
    \cup { <<DigitChars[k + 1], "0", "0", "0", "0", "0", "0">> : k \in 1..MaxStakeMillions }

Init ==
    /\ provider = "aws_ec2"
    /\ blob = "s3"
    /\ audioPrice = Lit(27, -2)
    /\ totalStake = Lit(280000000, 0)
    /\ userStake = Lit(2000000, 0)
    /\ darkMode = TRUE
    /\ listening = FALSE
    /\ memo = [value |-> Simulate("aws_ec2", "s3", Lit(27, -2), Lit(2000000, 0)),
               deps |-> Deps("aws_ec2", "s3", Lit(27, -2), Lit(280000000, 0),
                             Lit(2000000, 0))]

\* The mount effect: read the system theme and register the listener.
DetectSystemTheme(matches) ==
    /\ ~listening
    /\ SetStateAndRender(provider, blob, audioPrice, userStake, matches, TRUE)

\* The media query's change listener.
ThemeListener(matches) ==
    /\ listening
    /\ SetStateAndRender(provider, blob, audioPrice, userStake, matches, listening)

\* onChange of the Compute select.
SelectProvider(p) ==
    /\ p \in Providers
    /\ SetStateAndRender(p, blob, audioPrice, userStake, darkMode, listening)

\* onChange of the Storage select.
SelectBlob(b) ==
    /\ b \in BlobProviders
    /\ SetStateAndRender(provider, b, audioPrice, userStake, darkMode, listening)

\* onChange of the AUDIO Price input.
ChangeAudioPrice(text) ==
    /\ text \in PriceTexts
    /\ SetStateAndRender(provider, blob, ParseFloat(text), userStake, darkMode,
                         listening)

\* onChange of the Your Stake input.
ChangeUserStake(text) ==
    /\ text \in StakeTexts
    /\ SetStateAndRender(provider, blob, audioPrice, ParseFloat(text), darkMode,
                         listening)

Next ==
    \/ \E matches \in BOOLEAN : DetectSystemTheme(matches)
    \/ \E matches \in BOOLEAN : ThemeListener(matches)
    \/ \E p \in Providers : SelectProvider(p)
    \/ \E b \in BlobProviders : SelectBlob(b)
    \/ \E text \in PriceTexts : ChangeAudioPrice(text)
    \/ \E text \in StakeTexts : ChangeUserStake(text)

Spec == Init /\ [][Next]_vars

\* ------------------------------------------------------------------------
\* Properties
\* ------------------------------------------------------------------------

DefaultAudioPrice == Lit(27, -2)
DefaultUserStake == Lit(2000000, 0)

\* The left-to-right sum, from 0, of a field over the first w elements.
RECURSIVE SumTo(_, _, _)
SumTo(rows, field, w) ==
    IF w = 0 THEN Zero ELSE FAdd(SumTo(rows, field, w - 1), rows[w][field])

CostColumn(rows) == [w \in DOMAIN rows |-> rows[w].weeklyInfraCostUSD]

\* C1: in every charted sequence and for every week w, cumulativeNetUSD[w] is
\* the sum of weeklyEarningsUSD over weeks 1..w minus the sum of
\* weeklyInfraCostUSD over weeks 1..w, both sums taken from 0 in ascending
\* week order.
C1_CumulativeNetIsDifferenceOfRunningSums ==
    \A w \in DOMAIN data :
        data[w].cumulativeNetUSD =
            FSub(SumTo(data, "weeklyEarningsUSD", w),
                 SumTo(data, "weeklyInfraCostUSD", w))

\* A recomputed chart (non-default stake and storage) whose last cumulative
\* net is a number that differs from the last week's own net.
C1_Witness ==
    /\ blob = "gcs"
    /\ userStake = Lit(1000000, 0)
    /\ Len(data) = weeks
    /\ IsNumber(data[weeks].cumulativeNetUSD)
    /\ data[weeks].cumulativeNetUSD # data[weeks].netUSD
    /\ data[weeks].cumulativeNetUSD # data[1].cumulativeNetUSD

\* C2: after any sequence of control changes the charted sequence is the
\* result of running the simulation from scratch on the current control
\* values.
C2_ChartIsFreshSimulation ==
    data = Simulate(provider, blob, audioPrice, userStake)

\* Every control has been changed away from its initial value.
C2_Witness ==
    /\ provider = "gcp_compute"
    /\ blob = "gcs"
    /\ audioPrice = Lit(5, -1)
    /\ userStake = Lit(1000000, 0)
    /\ data # Simulate("aws_ec2", "s3", DefaultAudioPrice, DefaultUserStake)

DefaultScenario ==
    /\ provider = "aws_ec2"
    /\ blob = "s3"
    /\ audioPrice = DefaultAudioPrice
    /\ userStake = DefaultUserStake

\* (80 / 4.345 + 0.023 * 200 + 0.09 * 400) * 1.015
C3_ClosedForm ==
    FMul(FAdd(FAdd(FDiv(Lit(80, 0), Lit(4345, -3)), FMul(Lit(23, -3), Lit(200, 0))),
              FMul(Lit(9, -2), Lit(400, 0))),
         Lit(1015, -3))

\* C3 as stated: in the default scenario week 1's weeklyInfraCostUSD is 60.58
\* to two decimal places.
C3_WeekOneCostIs6058 ==
    DefaultScenario =>
        ToFixed2(data[1].weeklyInfraCostUSD) = <<"6", "0", ".", "5", "8">>

\* C3 (amended): in the default scenario week 1's weeklyInfraCostUSD agrees
\* with (80 / 4.345 + 0.023 * 200 + 0.09 * 400) * 1.015 to two decimal
\* places, and that is 59.90.
C3_WeekOneCostIs5990 ==
    DefaultScenario =>
        /\ ToFixed2(data[1].weeklyInfraCostUSD) = <<"5", "9", ".", "9", "0">>
        /\ ToFixed2(C3_ClosedForm) = ToFixed2(data[1].weeklyInfraCostUSD)

\* The default scenario, charted again after the controls went elsewhere
\* and came back (the theme effect has run, the chart was recomputed).
C3_Witness ==
    /\ DefaultScenario
    /\ listening
    /\ ~darkMode
    /\ data[1].week = 1
    /\ IsNumber(data[1].weeklyInfraCostUSD)

\* C4: for every provider / blob choice, weeklyInfraCostUSD is strictly
\* increasing in the week: cost[w] < cost[w + 1] for every w in 1..11.
C4_InfraCostStrictlyIncreasing ==
    \A w \in 1..11 :
        FLess(data[w].weeklyInfraCostUSD, data[w + 1].weeklyInfraCostUSD)

C4_Witness ==
    /\ provider = "gcp_compute"
    /\ blob = "gcs"
    /\ IsNaN(audioPrice)
    /\ FLess(data[11].weeklyInfraCostUSD, data[12].weeklyInfraCostUSD)

\* C5: the charted sequence has exactly 12 elements and the element at
\* position i has week = i.
C5_TwelveWeeksInOrder ==
    /\ Len(data) = 12
    /\ \A i \in 1..12 : data[i].week = i

\* Twelve weeks also for an input that is not a number.
C5_Witness ==
    /\ IsNaN(userStake)
    /\ provider = "gcp_compute"
    /\ Len(data) = 12
    /\ data[12].week = 12

\* C6: in every week of every charted sequence, netUSD is weeklyEarningsUSD
\* minus weeklyInfraCostUSD of that week.
C6_NetIsEarningsMinusCost ==
    \A w \in DOMAIN data :
        data[w].netUSD = FSub(data[w].weeklyEarningsUSD, data[w].weeklyInfraCostUSD)

\* A chart with a week of gain, from a stake and a price that are not the
\* initial ones.
C6_Witness ==
    /\ userStake = Lit(1000000, 0)
    /\ audioPrice = Lit(5, -1)
    /\ IsNumber(data[3].netUSD)
    /\ data[3].netUSD.m > 0
    /\ data[3].netUSD # data[3].weeklyEarningsUSD

\* C7: with the user stake at 0, weeklyEarningsUSD is 0 and netUSD is
\* -weeklyInfraCostUSD in every week, whatever the AUDIO price control holds.
C7_ZeroStakeZeroEarnings ==
    userStake = Zero =>
        \A w \in DOMAIN data :
            /\ data[w].weeklyEarningsUSD = Zero
            /\ data[w].netUSD = FNeg(data[w].weeklyInfraCostUSD)

\* C8: the tokenPrice and userStakeAmount the simulation reads are numbers,
\* and so is every field of every charted element.
C8_SimulationReadsNumbers ==
    /\ IsNumber(audioPrice)
    /\ IsNumber(userStake)
    /\ \A w \in DOMAIN data :
        /\ IsNumber(data[w].weeklyEarningsUSD)
        /\ IsNumber(data[w].weeklyInfraCostUSD)
        /\ IsNumber(data[w].netUSD)
        /\ IsNumber(data[w].cumulativeNetUSD)

\* C10: a step that keeps the compute provider and the blob provider keeps
\* weeklyInfraCostUSD of every week, whatever it does to the AUDIO price, the
\* user stake or the theme.
C10_CostIgnoresPriceAndStake ==
    [][(provider' = provider /\ blob' = blob) => CostColumn(data') = CostColumn(data)]_vars

\* Price and stake changed, providers as at the start, week 1's cost as at
\* the start.
C10_Witness ==
    /\ provider = "aws_ec2"
    /\ blob = "s3"
    /\ audioPrice = Lit(1, 0)
    /\ userStake = Lit(1000000, 0)
    /\ data[1].weeklyEarningsUSD # Simulate("aws_ec2", "s3", DefaultAudioPrice,
                                             DefaultUserStake)[1].weeklyEarningsUSD
    /\ data[1].weeklyInfraCostUSD = Lit(59897147, -6)
====
